---- MODULE Spec2Model ----
(***************************************************************************)
(* The ext_authz sample server: an external authorization service that     *)
(* answers check requests over gRPC and over plain HTTP.  The repository   *)
(* holds two programs:                                                     *)
(*   "exact"  : src/ext_authz/server/main.go (header x-ext-authz = allow)  *)
(*   "bearer" : src/unnamed/part_000 (header Authorization: Bearer allow)  *)
(* A Go string is a sequence of one-character strings, so that prefix      *)
(* tests, trimming and header-key canonicalisation are computed.           *)
(***************************************************************************)
EXTENDS Integers, Sequences, FiniteSets, TLC

VARIABLES
    variant,    \* which of the two programs runs: "exact" or "bearer"
    flags,      \* the parsed command line: [http |-> port, grpc |-> port]
    mainpc,     \* position of main: "start", "wait", "returned"
    wg,         \* the sync.WaitGroup counter
    pc,         \* position of each listener goroutine
    lstate,     \* lifecycle state of each listener
    address,    \* the address each listener goroutine was started with
    port,       \* the port each listener is bound to (0: not bound)
    portChan,   \* exact only: the buffered readiness channels of the server
    sent,       \* number of ports each listener has sent to its channel
    dones,      \* number of wg.Done() calls each listener has made
    accepted,   \* number of connections each listener has accepted
    exit,       \* "running", or the process's end: "exit0", "exit1"
    attrs,      \* the inbound request's attributes (one snapshot, two wire forms)
    rpcResp,    \* <<>> or <<the answer of the gRPC Check to attrs>>
    httpResp    \* <<>> or <<the answer of ServeHTTP to attrs>>

lifeVars == <<flags, mainpc, wg, pc, lstate, address, port, portChan, sent,
              dones, accepted, exit>>
checkVars == <<attrs, rpcResp, httpResp>>
vars == <<variant, lifeVars, checkVars>>

Variants == {"exact", "bearer"}
Listeners == {"grpc", "http"}
Other(l) == IF l = "grpc" THEN "http" ELSE "grpc"

(***************************************************************************)
(* Bounds of the model.                                                    *)
(***************************************************************************)
MaxHeaders == 2     \* headers carried by one request
MaxAccepted == 2    \* connections counted per listener
NumEphemeral == 2   \* ports the system may pick for a ":0" address

(***************************************************************************)
(* Strings.                                                                *)
(***************************************************************************)
Lowers == <<"a","b","c","d","e","f","g","h","i","j","k","l","m",
            "n","o","p","q","r","s","t","u","v","w","x","y","z">>
Uppers == <<"A","B","C","D","E","F","G","H","I","J","K","L","M",
            "N","O","P","Q","R","S","T","U","V","W","X","Y","Z">>

IndexIn(c, s) ==
    IF \E i \in 1..Len(s) : s[i] = c
    THEN CHOOSE i \in 1..Len(s) : s[i] = c
    ELSE 0

ToUpper(c) == IF IndexIn(c, Lowers) > 0 THEN Uppers[IndexIn(c, Lowers)] ELSE c
ToLower(c) == IF IndexIn(c, Uppers) > 0 THEN Lowers[IndexIn(c, Uppers)] ELSE c

\* strings.ToLower, used to compare header names without case
LowerStr(s) == [i \in 1..Len(s) |-> ToLower(s[i])]

\* strings.HasPrefix
HasPrefix(s, prefix) ==
    Len(s) >= Len(prefix) /\ SubSeq(s, 1, Len(prefix)) = prefix

\* strings.TrimPrefix
TrimPrefix(s, prefix) ==
    IF HasPrefix(s, prefix) THEN SubSeq(s, Len(prefix) + 1, Len(s)) ELSE s

\* textproto.CanonicalMIMEHeaderKey: the first letter and every letter after
\* a hyphen in upper case, the others in lower case.
CanonicalMIMEHeaderKey(k) ==
    [i \in 1..Len(k) |->
        IF i = 1 \/ k[i - 1] = "-" THEN ToUpper(k[i]) ELSE ToLower(k[i])]

(***************************************************************************)
(* The programs' literals.                                                 *)
(***************************************************************************)
checkHeader == <<"x","-","e","x","t","-","a","u","t","h","z">>
allowedValue == <<"a","l","l","o","w">>
resultHeader ==
    <<"x","-","e","x","t","-","a","u","t","h","z","-","r","e","s","u","l","t">>
AuthorizationHeader == <<"A","u","t","h","o","r","i","z","a","t","i","o","n">>
BearerPrefix == <<"B","e","a","r","e","r"," ">>
SetCookie == <<"S","e","t","-","C","o","o","k","i","e">>

rpcOK == 0
rpcPermissionDenied == 7
StatusOK == 200
StatusForbidden == 403
ChanCap == 1
DefaultHTTPPort == 8000
DefaultGRPCPort == 9000


(***************************************************************************)
(* Inputs: the header names and values a request may carry.                *)
(***************************************************************************)
HeaderNames ==
    { checkHeader,                              \* x-ext-authz
      CanonicalMIMEHeaderKey(checkHeader),      \* X-Ext-Authz
      AuthorizationHeader,                      \* Authorization
      LowerStr(AuthorizationHeader) }           \* authorization

Block == <<"b","l","o","c","k">>

HeaderValues ==
    { <<>>,
      allowedValue,                                     \* "allow"
      <<"A">> \o Tail(allowedValue),                    \* "Allow"
      allowedValue \o <<" ">>,                          \* "allow "
      Block,                                            \* "block"
      BearerPrefix \o allowedValue,                     \* "Bearer allow"
      LowerStr(BearerPrefix) \o allowedValue,           \* "bearer allow"
      BearerPrefix,                                     \* "Bearer "
      BearerPrefix \o <<" ">> \o allowedValue,          \* "Bearer  allow"
      SubSeq(BearerPrefix, 1, 6) \o allowedValue }     \* "Bearerallow"

HeaderPairs == [name : HeaderNames, value : HeaderValues]

\* Header lists of at most n headers, in wire order, no name written twice.
HeaderLists(n) ==
    { hs \in UNION { [1..k -> HeaderPairs] : k \in 0..n } :
        \A i, j \in 1..Len(hs) : i # j => hs[i].name # hs[j].name }

\* How much of the gRPC request's nesting is present.
Shapes == {"full", "noHeaders", "noHttp", "noRequest", "noAttributes"}

\* The attribute snapshots: only a full request carries headers.
AttrSnapshots ==
    { a \in [shape : Shapes, headers : HeaderLists(MaxHeaders)] :
        a.shape # "full" => a.headers = <<>> }

(***************************************************************************)
(* The gRPC request and its generated accessors.  A message pointer is     *)
(* <<"nil">> or <<"some", fields>>; <<"panic">> is a nil dereference.      *)
(***************************************************************************)
Nil == <<"nil">>
Panic == <<"panic">>
Some(x) == <<"some", x>>

\* The headers of a list as a Go map[string]string.
HeaderMap(hs) ==
    [n \in {hs[i].name : i \in 1..Len(hs)} |->
        (CHOOSE p \in {hs[i] : i \in 1..Len(hs)} : p.name = n).value]

\* The *auth.CheckRequest the proxy sends for a snapshot.
RpcRequest(a) ==
    LET http == IF a.shape = "noHeaders" THEN Some([headers |-> Nil])
                ELSE Some([headers |-> Some(HeaderMap(a.headers))])
        req  == IF a.shape = "noHttp" THEN Some([http |-> Nil])
                ELSE Some([http |-> http])
        att  == IF a.shape = "noRequest" THEN Some([request |-> Nil])
                ELSE Some([request |-> req])
    IN  IF a.shape = "noAttributes" THEN Some([attributes |-> Nil])
        ELSE Some([attributes |-> att])

\* The generated accessors return the zero value on a nil receiver.
GetAttributes(m) ==
    CASE m = Panic -> Panic [] m = Nil -> Nil [] OTHER -> m[2].attributes
GetRequest(m) ==
    CASE m = Panic -> Panic [] m = Nil -> Nil [] OTHER -> m[2].request
\* GetHttp without the nil test: a plain field access, m.Http.
GetHttpDeref(m) ==
    CASE m = Panic -> Panic [] m = Nil -> Panic [] OTHER -> m[2].http
GetHttp(m) ==
    CASE m = Panic -> Panic [] m = Nil -> Nil [] OTHER -> m[2].http
GetHeaders(m) ==
    CASE m = Panic -> Panic [] m = Nil -> Nil [] OTHER -> m[2].headers

\* m[key] on a Go map: the empty string for a nil map or a missing key.
MapIndex(m, key) ==
    CASE m = Panic -> Panic
      [] m = Nil -> <<>>
      [] OTHER -> IF key \in DOMAIN m[2] THEN m[2][key] ELSE <<>>

(***************************************************************************)
(* The HTTP request and net/http's Header.                                 *)
(***************************************************************************)
\* The server reads the header lines into a map from canonical key to the
\* values in wire order.
ReadMIMEHeader(hs) ==
    [k \in {CanonicalMIMEHeaderKey(hs[i].name) : i \in 1..Len(hs)} |->
        LET idx == {i \in 1..Len(hs) : CanonicalMIMEHeaderKey(hs[i].name) = k}
            RECURSIVE vals(_)
            vals(i) == IF i > Len(hs) THEN <<>>
                       ELSE IF i \in idx THEN <<hs[i].value>> \o vals(i + 1)
                       ELSE vals(i + 1)
        IN  vals(1)]

HttpRequest(a) == [Header |-> ReadMIMEHeader(a.headers)]

\* Header.Get: the first value under the canonical form of key, or "".
HeaderGet(h, key) ==
    IF CanonicalMIMEHeaderKey(key) \in DOMAIN h
    THEN h[CanonicalMIMEHeaderKey(key)][1]
    ELSE <<>>

\* Header.Set on the empty response header.
HeaderSet(key, value) ==
    [k \in {CanonicalMIMEHeaderKey(key)} |-> <<value>>]

NoHeader == [k \in {} |-> <<>>]

(***************************************************************************)
(* The handlers.  A gRPC answer is [outcome, err, status, headers], the    *)
(* headers being those of the OkResponse (none when it has no              *)
(* HttpResponse); an HTTP answer is [status, header].                      *)
(***************************************************************************)
Panicked == [outcome |-> "panic", err |-> "panic", status |-> -1, headers |-> <<>>]

Returned(code, hdrs) ==
    [outcome |-> "return", err |-> "nil", status |-> code, headers |-> hdrs]

\* main.go: the credential value the gRPC Check reads.
ExactCredential(request) ==
    MapIndex(GetHeaders(GetHttp(GetRequest(GetAttributes(request)))), checkHeader)

\* main.go: Check
ExactCheck(request) ==
    IF ExactCredential(request) = Panic THEN Panicked
    ELSE IF allowedValue = ExactCredential(request)
    THEN Returned(rpcOK, <<[key |-> resultHeader, value |-> "allowed"]>>)
    ELSE Returned(rpcPermissionDenied,
                  <<[key |-> resultHeader, value |-> "denied"]>>)

\* ServeHTTP indexing the header map with the key as written,
\* request.Header[checkHeader], instead of Header.Get.
ExactServeHTTPRawKey(request) ==
    IF allowedValue = (IF checkHeader \in DOMAIN request.Header
                       THEN request.Header[checkHeader][1] ELSE <<>>)
    THEN [status |-> StatusOK, header |-> HeaderSet(resultHeader, "allowed")]
    ELSE [status |-> StatusForbidden, header |-> HeaderSet(resultHeader, "denied")]

\* main.go: ServeHTTP
ExactServeHTTP(request) ==
    IF allowedValue = HeaderGet(request.Header, checkHeader)
    THEN [status |-> StatusOK, header |-> HeaderSet(resultHeader, "allowed")]
    ELSE [status |-> StatusForbidden, header |-> HeaderSet(resultHeader, "denied")]

\* check without the HasPrefix test: the token is TrimPrefix(header, "Bearer ").
checkTrimOnly(header) == TrimPrefix(header, BearerPrefix) = allowedValue

\* part_000: check
check(header) ==
    LET token == IF HasPrefix(header, BearerPrefix)
                 THEN TrimPrefix(header, BearerPrefix)
                 ELSE <<>>
    IN  token = allowedValue

\* part_000: the credential value the gRPC Check reads.
BearerCredential(request) ==
    MapIndex(GetHeaders(GetHttp(GetRequest(GetAttributes(request)))),
             AuthorizationHeader)

\* part_000: Check
BearerCheck(request) ==
    IF BearerCredential(request) = Panic THEN Panicked
    ELSE IF check(BearerCredential(request))
    THEN Returned(rpcOK,
                  <<[key |-> SetCookie, value |-> "xt-AuthZ-Custom-Cookie=abcd5678"]>>)
    ELSE Returned(rpcPermissionDenied, <<>>)

\* part_000: ServeHTTP
BearerServeHTTP(request) ==
    IF check(HeaderGet(request.Header, AuthorizationHeader))
    THEN [status |-> StatusOK,
          header |-> HeaderSet(SetCookie, "Ext-AuthZ-Custom-Cookie=abcd1234")]
    ELSE [status |-> StatusForbidden, header |-> NoHeader]

Check(v, request) ==
    IF v = "exact" THEN ExactCheck(request) ELSE BearerCheck(request)

ServeHTTP(v, request) ==
    IF v = "exact" THEN ExactServeHTTP(request) ELSE BearerServeHTTP(request)

(***************************************************************************)
(* The listeners' lifecycle.                                               *)
(***************************************************************************)
FlagValues == {0, DefaultHTTPPort, DefaultGRPCPort}

\* fmt.Sprintf(":%s", port)
Addr(p) == <<":", p>>

EphemeralPorts == {49152 + i : i \in 0..(NumEphemeral - 1)}

\* The listener holds its socket from the bind until its serve loop ends.
Holds(l) == lstate[l] \in {"BOUND", "SERVING"}

\* The ports net.Listen may bind for listener l: the one of its address, or
\* a free port of the system's choice for ":0"; none while the other
\* listener holds it.
Bindable(l) ==
    { p \in (IF address[l][2] = 0 THEN EphemeralPorts ELSE {address[l][2]}) :
        ~(Holds(Other(l)) /\ port[Other(l)] = p) }

\* Both programs reporting errors with log.Fatalf.
FatalAlways(v) == TRUE

\* main.go reports bind and serve errors with log.Fatalf, which exits the
\* process with status 1; part_000 reports them with log.Printf and returns.
Fatal(v) == v = "exact"

\* startGRPC and startHTTP serving without sending the port.
AfterBindNoReport(v) == "serve"

\* main.go sends the bound port to the readiness channel before serving;
\* part_000 has no readiness channel.
AfterBind(v) == IF v = "exact" THEN "report" ELSE "serve"

\* run (main.go) and main (part_000): the address each listener is started with.
run(v, httpAddr, grpcAddr) ==
    IF v = "exact"
    THEN [grpc |-> httpAddr, http |-> grpcAddr]
    ELSE [grpc |-> grpcAddr, http |-> httpAddr]

\* The readiness channels made without a buffer, make(chan int), and no
\* receiver waiting.
CanSendUnbuffered(l) == Len(portChan[l]) < ChanCap - 1

\* A send on a buffered channel proceeds while the buffer has room.
CanSend(l) == Len(portChan[l]) < ChanCap

\* The wait group counting one listener only, wg.Add(1).
WaitDoneEarly == wg <= 1

\* wg.Wait() returns when the counter is zero.
WaitDone == wg = 0

NoAttrs == [shape |-> "full", headers |-> <<>>]

LifeInit ==
    /\ flags = [http |-> DefaultHTTPPort, grpc |-> DefaultGRPCPort]
    /\ mainpc = "start"
    /\ wg = 0
    /\ pc = [l \in Listeners |-> "idle"]
    /\ lstate = [l \in Listeners |-> "CREATED"]
    /\ address = [l \in Listeners |-> Addr(0)]
    /\ port = [l \in Listeners |-> 0]
    /\ portChan = [l \in Listeners |-> <<>>]
    /\ sent = [l \in Listeners |-> <<>>]
    /\ dones = [l \in Listeners |-> 0]
    /\ accepted = [l \in Listeners |-> 0]
    /\ exit = "running"

Init ==
    /\ variant \in Variants
    /\ LifeInit
    /\ attrs = NoAttrs
    /\ rpcResp = <<>>
    /\ httpResp = <<>>

\* main: flag.Parse, the server with its two channels, wg.Add(2) and the two
\* go statements; main then waits.
main ==
    /\ exit = "running" /\ mainpc = "start"
    /\ \E h \in FlagValues, g \in FlagValues :
          /\ flags' = [http |-> h, grpc |-> g]
          /\ address' = run(variant, Addr(h), Addr(g))
    /\ wg' = 2
    /\ pc' = [l \in Listeners |-> "listen"]
    /\ mainpc' = "wait"
    /\ UNCHANGED <<variant, lstate, port, portChan, sent, dones, accepted, exit,
                   checkVars>>

\* net.Listen in startGRPC and startHTTP (inside ListenAndServe in part_000).
Listen(l) ==
    /\ exit = "running" /\ pc[l] = "listen"
    /\ \/ \E p \in Bindable(l) :
             /\ port' = [port EXCEPT ![l] = p]
             /\ lstate' = [lstate EXCEPT ![l] = "BOUND"]
             /\ pc' = [pc EXCEPT ![l] = AfterBind(variant)]
             /\ exit' = exit
       \/ /\ lstate' = [lstate EXCEPT ![l] = "FAILED"]
          /\ pc' = [pc EXCEPT ![l] = IF Fatal(variant) THEN "exited" ELSE "defer"]
          /\ exit' = IF Fatal(variant) THEN "exit1" ELSE exit
          /\ port' = port
    /\ UNCHANGED <<variant, flags, mainpc, wg, address, portChan, sent, dones,
                   accepted, checkVars>>

\* main.go: s.grpcPort <- port, s.httpPort <- port
Report(l) ==
    /\ exit = "running" /\ pc[l] = "report"
    /\ CanSend(l)
    /\ portChan' = [portChan EXCEPT ![l] = Append(@, port[l])]
    /\ sent' = [sent EXCEPT ![l] = Append(@, port[l])]
    /\ pc' = [pc EXCEPT ![l] = "serve"]
    /\ UNCHANGED <<variant, flags, mainpc, wg, lstate, address, port, dones,
                   accepted, exit, checkVars>>

\* server.Serve(listener), http.Serve(listener, s): the accept loop begins.
Serve(l) ==
    /\ exit = "running" /\ pc[l] = "serve"
    /\ lstate' = [lstate EXCEPT ![l] = "SERVING"]
    /\ pc' = [pc EXCEPT ![l] = "serving"]
    /\ UNCHANGED <<variant, flags, mainpc, wg, address, port, portChan, sent,
                   dones, accepted, exit, checkVars>>

\* The accept loop accepts a connection.
Accept(l) ==
    /\ exit = "running" /\ pc[l] = "serving"
    /\ accepted[l] < MaxAccepted
    /\ accepted' = [accepted EXCEPT ![l] = @ + 1]
    /\ UNCHANGED <<variant, flags, mainpc, wg, pc, lstate, address, port,
                   portChan, sent, dones, exit, checkVars>>

\* The accept loop returns an error.  (grpc's Serve returns nil only after
\* Stop or GracefulStop, which neither program calls.)
ServeError(l) ==
    /\ exit = "running" /\ pc[l] = "serving"
    /\ lstate' = [lstate EXCEPT ![l] = "STOPPED"]
    /\ pc' = [pc EXCEPT ![l] = IF Fatal(variant) THEN "exited" ELSE "defer"]
    /\ exit' = IF Fatal(variant) THEN "exit1" ELSE exit
    /\ UNCHANGED <<variant, flags, mainpc, wg, address, port, portChan, sent,
                   dones, accepted, checkVars>>

\* The deferred function of a listener goroutine that returns: wg.Done().
Deferred(l) ==
    /\ exit = "running" /\ pc[l] = "defer"
    /\ wg' = wg - 1
    /\ dones' = [dones EXCEPT ![l] = @ + 1]
    /\ pc' = [pc EXCEPT ![l] = "done"]
    /\ UNCHANGED <<variant, flags, mainpc, lstate, address, port, portChan,
                   sent, accepted, exit, checkVars>>

\* wg.Wait() returns, then run and main: the process ends with status 0.
Wait ==
    /\ exit = "running" /\ mainpc = "wait"
    /\ WaitDone
    /\ mainpc' = "returned"
    /\ exit' = "exit0"
    /\ UNCHANGED <<variant, flags, wg, pc, lstate, address, port, portChan,
                   sent, dones, accepted, checkVars>>

\* A test receives a port from a readiness channel ("for test only").
Observe(l) ==
    /\ exit = "running" /\ variant = "exact"
    /\ portChan[l] # <<>>
    /\ portChan' = [portChan EXCEPT ![l] = Tail(@)]
    /\ UNCHANGED <<variant, flags, mainpc, wg, pc, lstate, address, port, sent,
                   dones, accepted, exit, checkVars>>

Next ==
    \/ main
    \/ \E l \in Listeners : Listen(l)
    \/ \E l \in Listeners : Report(l)
    \/ \E l \in Listeners : Serve(l)
    \/ \E l \in Listeners : Accept(l)
    \/ \E l \in Listeners : ServeError(l)
    \/ \E l \in Listeners : Deferred(l)
    \/ Wait
    \/ \E l \in Listeners : Observe(l)

Spec == Init /\ [][Next]_vars

\* The Go scheduler runs every runnable goroutine; errors of the network and
\* the arrival of connections and of test observers are not owed.
Fairness ==
    /\ WF_vars(main)
    /\ WF_vars(Wait)
    /\ \A l \in Listeners :
          WF_vars(Listen(l)) /\ WF_vars(Report(l)) /\ WF_vars(Serve(l))
          /\ WF_vars(Deferred(l))

FairSpec == Init /\ [][Next]_vars /\ Fairness

(***************************************************************************)
(* The handlers applied to every request.                                  *)
(***************************************************************************)
CheckInit ==
    /\ variant \in Variants
    /\ LifeInit
    /\ attrs \in AttrSnapshots
    /\ rpcResp = <<>>
    /\ httpResp = <<>>

\* The gRPC server calls Check with the request.
GrpcCall ==
    /\ rpcResp = <<>>
    /\ rpcResp' = <<Check(variant, RpcRequest(attrs))>>
    /\ UNCHANGED <<variant, lifeVars, attrs, httpResp>>

\* The HTTP server calls ServeHTTP with the request.
HttpCall ==
    /\ httpResp = <<>>
    /\ httpResp' = <<ServeHTTP(variant, HttpRequest(attrs))>>
    /\ UNCHANGED <<variant, lifeVars, attrs, rpcResp>>

CheckNext == GrpcCall \/ HttpCall

CheckSpec == CheckInit /\ [][CheckNext]_vars

(***************************************************************************)
(* Properties of the handlers (CheckSpec).                                 *)
(***************************************************************************)
\* The headers of hs whose name is `name` up to letter case.
Named(hs, name) == {i \in 1..Len(hs) : LowerStr(hs[i].name) = LowerStr(name)}

\* Every such header is written exactly as `name`.
SpelledExactly(hs, name) == \A i \in Named(hs, name) : hs[i].name = name

\* The value of the one header named `name`; the empty string when absent.
CredentialValue(hs, name) ==
    IF Named(hs, name) = {} THEN <<>>
    ELSE hs[CHOOSE i \in Named(hs, name) : TRUE].value

\* The gRPC answer r is a normal return with this status and these headers.
RpcAnswers(r, code, hdrs) ==
    r.outcome = "return" /\ r.err = "nil" /\ r.status = code /\ r.headers = hdrs

\* The HTTP answer r has this status and exactly the header name: value.
HttpAnswers(r, code, name, value) ==
    /\ r.status = code
    /\ Cardinality(DOMAIN r.header) = 1
    /\ \A k \in DOMAIN r.header :
          LowerStr(k) = LowerStr(name) /\ r.header[k] = <<value>>

\* C1: exact-match program.  With v the value of the x-ext-authz header
\* ("" when absent), the gRPC Check answers OK with the one header
\* x-ext-authz-result: allowed when v is exactly "allow", and
\* PERMISSION_DENIED with the one header x-ext-authz-result: denied for every
\* other v; ServeHTTP answers 200 / 403 with the same one header.
C1_ExactMatch ==
    variant = "exact" =>
      LET v == CredentialValue(attrs.headers, checkHeader) IN
      /\ (rpcResp # <<>> /\ SpelledExactly(attrs.headers, checkHeader)) =>
            IF v = <<"a","l","l","o","w">>
            THEN RpcAnswers(rpcResp[1], 0,
                            <<[key |-> resultHeader, value |-> "allowed"]>>)
            ELSE RpcAnswers(rpcResp[1], 7,
                            <<[key |-> resultHeader, value |-> "denied"]>>)
      /\ (httpResp # <<>> /\ Cardinality(Named(attrs.headers, checkHeader)) <= 1) =>
            IF v = <<"a","l","l","o","w">>
            THEN HttpAnswers(httpResp[1], 200, resultHeader, "allowed")
            ELSE HttpAnswers(httpResp[1], 403, resultHeader, "denied")

C1_Witness ==
    /\ variant = "exact"
    /\ attrs.headers = <<[name |-> checkHeader, value |-> allowedValue]>>
    /\ rpcResp # <<>> /\ rpcResp[1].status = rpcOK
    /\ httpResp # <<>> /\ httpResp[1].status = StatusOK

\* C2: bearer program.  With v the value of the Authorization header ("" when
\* absent), both handlers allow (OK / 200, exactly one header, Set-Cookie)
\* when v is exactly "Bearer allow", and deny (PERMISSION_DENIED / 403, no
\* header) for every other v.
C2_Bearer ==
    variant = "bearer" =>
      LET v == CredentialValue(attrs.headers, AuthorizationHeader)
          allow == v = <<"B","e","a","r","e","r"," ","a","l","l","o","w">>
      IN
      /\ (rpcResp # <<>> /\ SpelledExactly(attrs.headers, AuthorizationHeader)) =>
            IF allow
            THEN /\ rpcResp[1].outcome = "return" /\ rpcResp[1].err = "nil"
                 /\ rpcResp[1].status = 0
                 /\ Len(rpcResp[1].headers) = 1
                 /\ rpcResp[1].headers[1].key = SetCookie
            ELSE RpcAnswers(rpcResp[1], 7, <<>>)
      /\ (httpResp # <<>>
            /\ Cardinality(Named(attrs.headers, AuthorizationHeader)) <= 1) =>
            IF allow
            THEN /\ httpResp[1].status = 200
                 /\ DOMAIN httpResp[1].header = {SetCookie}
                 /\ Len(httpResp[1].header[SetCookie]) = 1
            ELSE httpResp[1].status = 403 /\ DOMAIN httpResp[1].header = {}

C2_Witness ==
    /\ variant = "bearer"
    /\ attrs.headers =
          <<[name |-> AuthorizationHeader, value |-> BearerPrefix \o allowedValue]>>
    /\ rpcResp # <<>> /\ rpcResp[1].status = rpcOK
    /\ httpResp # <<>> /\ httpResp[1].status = StatusOK

\* The name of the credential header of each program.
CredentialName(v) == IF v = "exact" THEN checkHeader ELSE AuthorizationHeader

\* A full request whose credential header is present and empty.
EmptyCredential(v) ==
    [shape |-> "full",
     headers |-> <<[name |-> CredentialName(v), value |-> <<>>]>>]

\* C3: every check returns an answer and a nil error; a gRPC request whose
\* attributes, request, http or headers map is absent, and an HTTP request
\* without the credential header, get the denial that the empty credential
\* header gets.
C3_NoErrorOutcome ==
    /\ rpcResp # <<>> =>
          rpcResp[1].outcome = "return" /\ rpcResp[1].err = "nil"
    /\ (rpcResp # <<>> /\ attrs.shape # "full") =>
          /\ rpcResp[1].status = 7
          /\ rpcResp[1] = Check(variant, RpcRequest(EmptyCredential(variant)))
    /\ (httpResp # <<>> /\ Named(attrs.headers, CredentialName(variant)) = {}) =>
          /\ httpResp[1].status = 403
          /\ httpResp[1] = ServeHTTP(variant, HttpRequest(EmptyCredential(variant)))

C3_Witness ==
    /\ attrs.shape = "noAttributes"
    /\ rpcResp # <<>> /\ rpcResp[1].status = rpcPermissionDenied
    /\ httpResp # <<>> /\ httpResp[1].status = StatusForbidden

\* C4: the gRPC Check and ServeHTTP give the same verdict to requests that
\* carry the same headers, header names compared without case.
C4_CrossProtocol ==
    (/\ rpcResp # <<>> /\ httpResp # <<>>
     /\ Cardinality(Named(attrs.headers, CredentialName(variant))) <= 1) =>
        ((rpcResp[1].status = 0) <=> (httpResp[1].status = 200))

(***************************************************************************)
(* Properties of the listeners' lifecycle (Spec, FairSpec).                *)
(***************************************************************************)
Terminal(l) == lstate[l] \in {"STOPPED", "FAILED"}

\* The serve loop of listener l returns an error in this step.
ServeFails(l) == lstate[l] = "SERVING" /\ lstate'[l] = "STOPPED"

C6_BindFailureFatal ==
    \A l \in Listeners :
       lstate[l] = "FAILED" =>
          /\ sent[l] = <<>> /\ accepted[l] = 0 /\ port[l] = 0
          /\ exit = "exit1"

\* C7: a listener's state moves only CREATED -> BOUND -> SERVING -> STOPPED
\* (or CREATED -> FAILED when the bind fails); in the exact-match program a
\* listener sends its bound port, greater than 0, to its readiness channel
\* once, after the bind and before it serves, so a listener that serves or
\* has accepted a connection has reported its port.
C7_ReadinessOrder ==
    /\ [][\A l \in Listeners :
            /\ lstate'[l] # lstate[l] =>
                  <<lstate[l], lstate'[l]>> \in
                     { <<"CREATED", "BOUND">>, <<"BOUND", "SERVING">>,
                       <<"SERVING", "STOPPED">>, <<"CREATED", "FAILED">> }
            /\ sent'[l] # sent[l] =>
                  lstate[l] = "BOUND" /\ lstate'[l] = "BOUND"]_vars
    /\ [](variant = "exact" =>
            \A l \in Listeners :
               /\ Len(sent[l]) <= 1
               /\ sent[l] # <<>> => sent[l][1] = port[l] /\ sent[l][1] > 0
               /\ (lstate[l] \in {"SERVING", "STOPPED"} \/ accepted[l] > 0) =>
                     sent[l] # <<>>)

C7_Witness ==
    /\ variant = "exact"
    /\ address["http"] = Addr(0)
    /\ lstate["http"] = "SERVING"
    /\ accepted["http"] > 0
    /\ sent["http"] = <<port["http"]>>
    /\ port["http"] \in EphemeralPorts

\* C8, as claimed: main does not return while a listener is not terminal, and
\* a listener whose goroutine has ended has called wg.Done() exactly once.
C8_WaitsForBoth ==
    /\ mainpc = "returned" => \A l \in Listeners : Terminal(l)
    /\ \A l \in Listeners :
          (Terminal(l) /\ pc[l] \in {"done", "exited"}) => dones[l] = 1

\* C8, amended: main starts the two listeners and does not return while one
\* of them is not terminal; a listener calls wg.Done() at most once, and
\* exactly once when its goroutine returns, which every ending path does in
\* the bearer program; in the exact-match program every ending path is a
\* log.Fatalf that exits the process with status 1 without wg.Done(); once
\* both listeners have called wg.Done(), main returns.
C8_WaitsForReturned ==
    /\ [](/\ mainpc # "start" => \A l \in Listeners : pc[l] # "idle"
          /\ mainpc = "returned" =>
                \A l \in Listeners : Terminal(l) /\ dones[l] = 1
          /\ \A l \in Listeners :
                /\ dones[l] <= 1
                /\ pc[l] = "done" <=> dones[l] = 1
                /\ pc[l] = "exited" =>
                      variant = "exact" /\ exit = "exit1" /\ dones[l] = 0
                /\ (variant = "exact" /\ Terminal(l)) => pc[l] = "exited")
    /\ \A l \in Listeners :
          (variant = "bearer" /\ Terminal(l)) ~> (dones[l] = 1)
    /\ (\A l \in Listeners : dones[l] = 1) ~> (mainpc = "returned")

C8_Witness ==
    /\ mainpc = "returned"
    /\ \A l \in Listeners : dones[l] = 1
    /\ lstate["grpc"] = "FAILED" /\ lstate["http"] = "STOPPED"

\* C9: each listener is started with, and binds, the address built from its
\* own protocol's flag.
C9_OwnAddress ==
    mainpc # "start" =>
       \A l \in Listeners :
          /\ address[l] = Addr(flags[l])
          /\ (Holds(l) /\ flags[l] # 0) => port[l] = flags[l]

\* C10, as claimed: in the exact-match program every listener whose bind
\* succeeded eventually serves.
C10_BoundLeadsToServing ==
    \A l \in Listeners :
       (variant = "exact" /\ lstate[l] = "BOUND") ~> (lstate[l] = "SERVING")

\* C10, amended: the send to the readiness channel is never blocked, though
\* no observer receives, and every listener whose bind succeeded eventually
\* serves unless the process is ended first (by the other listener's
\* log.Fatalf).
C10_ReportNeverBlocks ==
    /\ [](\A l \in Listeners :
            (pc[l] = "report" /\ exit = "running") => ENABLED Report(l))
    /\ \A l \in Listeners :
          (variant = "exact" /\ lstate[l] = "BOUND") ~>
              (lstate[l] = "SERVING" \/ exit # "running")

C10_Witness ==
    /\ variant = "exact"
    /\ \A l \in Listeners :
          lstate[l] = "SERVING" /\ portChan[l] = <<port[l]>>
    /\ exit = "running"
====
